---- MODULE Spec2Model ----
(***************************************************************************)
(* State-machine model of adafruit_bluefruitspi.BluefruitSPI: the SDEP     *)
(* framing of AT commands over SPI, the 200 ms wait on the IRQ line, the   *)
(* reassembly of the response and the command / command_check_OK wrappers. *)
(*                                                                         *)
(* Bytes are integers 0..255; a bytearray / bytes / ASCII str is a         *)
(* sequence of bytes (TLA+ sequences are 1-indexed, Python's 0-indexed).   *)
(* Times are integers in milliseconds.                                     *)
(***************************************************************************)
EXTENDS Integers, Sequences, FiniteSets, TLC

\* ------------------------------------------------------------ constants

\* MsgType
COMMAND == 16
RESPONSE == 32
ALERT == 64
ERROR == 128

\* SDEPCommand
INITIALIZE == 48879
ATCOMMAND == 2560

\* bytearray(20): the size of _buf_tx and _buf_rx
BufLen == 20
\* "if len(cmd) > 127"
MaxCmdLen == 127
\* "if len(cmd) - pos <= 16", "if plen > 16", the 16s of the pack format
MaxPayload == 16
\* "more = 0x80"
MoreBit == 128
\* "timeout = 0.2", in milliseconds
TimeoutMs == 200
\* "time.sleep(0.01)" / "timeout -= 0.01", in milliseconds
PollMs == 10
\* "\n"
NewLine == 10

\* ------------------------------------------------------------ bounds

\* Spec: command texts of every length 0..MaxTextLen are sent
MaxTextLen == 128
\* Spec: the peripheral keeps the IRQ line asserted for at most MaxRx reads
MaxRx == 1
\* SpecRx: the peripheral keeps the IRQ line asserted for at most MaxRxFrames reads
MaxRxFrames == 2
\* SpecRx: the length of the one command text sent
RxTextLen == 2
\* SpecLive: the length of the longer of the two command texts sent
LiveTextLen == 33

\* ------------------------------------------------------------ helpers

Min(a, b) == IF a < b THEN a ELSE b

Max(a, b) == IF a > b THEN a ELSE b

\* Python s[a:b] for 0 <= a, 0 <= b (the slice is clamped to the sequence)
Slice(s, a, b) == SubSeq(s, a + 1, Min(b, Len(s)))

\* Python s[-n:]
Tail_(s, n) == SubSeq(s, Max(1, Len(s) - n + 1), Len(s))

\* Python s[:-n]
DropTail(s, n) == IF Len(s) > n THEN SubSeq(s, 1, Len(s) - n) ELSE << >>

\* the "16s" field of struct.pack_into: the data cut to 16 bytes, zero-padded
Pad16(data) == [i \in 1..MaxPayload |-> IF i <= Len(data) THEN data[i] ELSE 0]

\* variant: the id packed high byte first
PackLE_BigEndian(t, id, l) == << t, id \div 256, id % 256, l >>

\* struct.pack_into("<BHB16s", buf, 0, t, id, l, data): 4-byte header with
\* the id little-endian, then the 16s field; bytes of buf past 20 are kept
PackLE(t, id, l) == << t, id % 256, id \div 256, l >>

PackInto_BHB16s(buf, t, id, l, data) ==
    PackLE(t, id, l) \o Pad16(data) \o SubSeq(buf, BufLen + 1, Len(buf))

\* variant: the length byte is not written
PackInto_BHB_NoLen(buf, t, id, l) ==
    SubSeq(PackLE(t, id, l), 1, 3) \o SubSeq(buf, 4, Len(buf))

\* struct.pack_into("<BHB", buf, 0, t, id, l): only the first 4 bytes change
PackInto_BHB(buf, t, id, l) == PackLE(t, id, l) \o SubSeq(buf, 5, Len(buf))

\* mutant: the id read little-endian, as it is packed
Unpack_BHB_LE(buf) ==
    [msgtype |-> buf[1], rspid |-> buf[3] * 256 + buf[2], rsplen |-> buf[4]]

\* struct.unpack('>BHB', buf): the id is read big-endian
Unpack_BHB(buf) ==
    [msgtype |-> buf[1], rspid |-> buf[2] * 256 + buf[3], rsplen |-> buf[4]]

\* "if rsplen >= 16: rsp += buf[4:20] else: rsp += buf[4:rsplen+4]"
RxPayload(buf, rsplen) ==
    IF rsplen >= MaxPayload THEN Slice(buf, 4, 20) ELSE Slice(buf, 4, rsplen + 4)

\* mutant: the more flag is cleared one byte too late
ChunkMore_OffByOne(remaining, more) == IF remaining < MaxPayload THEN 0 ELSE more

\* mutant: "if plen > 16: plen = 16" forgotten
ChunkLen_NoClamp(remaining) == remaining

\* mutant: the limit of the comment ("the 255 byte limit") instead of 127
TooLong_255(c) == Len(c) > 2 * MaxCmdLen + 1

\* "if len(cmd) > 127"
TooLong(c) == Len(c) > MaxCmdLen

\* the chunking of one loop iteration: more flag and plen
ChunkMore(remaining, more) == IF remaining <= MaxPayload THEN 0 ELSE more

ChunkLen(remaining) == IF remaining > MaxPayload THEN MaxPayload ELSE remaining

\* mutant: the whole transmit buffer is written
TxWritten_All(buf, cmdlen) == buf

\* "spi.write(self._buf_tx, end=len(cmd) + 4)": the bytes put on the bus
TxWritten(buf, cmdlen) == Slice(buf, 0, cmdlen + 4)

\* "spi.write(self._buf_tx, end=4)" of init
InitWritten(buf) == Slice(buf, 0, 4)

\* "while timeout > 0 and not self._irq.value"
WaitContinue(t, irqv) == t > 0 /\ ~irqv

\* variant: the test after the wait loop never raises
WaitTimedOut_Never(t) == FALSE

\* mutant: "<" for "<="
WaitTimedOut_Strict(t) == t < 0

\* "if timeout <= 0: raise RuntimeError('Timed out ...')".  The float
\* 0.2 - 20 * 0.01 is negative in binary64 and binary32 (-3.1e-17, -1.5e-8)
\* and positive after 19 subtractions, so the test agrees with the integers.
WaitTimedOut(t) == t <= 0

\* hex(n) of Python: the digits of n in base 16, most significant first,
\* after the "0x" prefix (digits are the values 0..15)
RECURSIVE HexDigits(_)
HexDigits(n) == IF n < 16 THEN << n >> ELSE Append(HexDigits(n \div 16), n % 16)

\* int(text, 16): what a caller recovers from the digits
RECURSIVE ParseHex(_)
ParseHex(ds) ==
    IF ds = << >> THEN 0
    ELSE 16 * ParseHex(SubSeq(ds, 1, Len(ds) - 1)) + ds[Len(ds)]

\* str(b, 'utf-8'): the code points of b, or <<-1>> where the decoder raises
\* (1- and 2-byte sequences; the inputs hold no lead byte of a longer one)
RECURSIVE Utf8Decode(_)
Utf8Decode(b) ==
    IF b = << >> THEN << >>
    ELSE IF b[1] < 128
         THEN LET rest == Utf8Decode(Tail(b))
              IN IF rest = << -1 >> THEN rest ELSE << b[1] >> \o rest
    ELSE IF b[1] >= 194 /\ b[1] <= 223 /\ Len(b) >= 2 /\ b[2] >= 128 /\ b[2] <= 191
         THEN LET rest == Utf8Decode(SubSeq(b, 3, Len(b)))
              IN IF rest = << -1 >> THEN rest
                 ELSE << (b[1] - 192) * 64 + (b[2] - 128) >> \o rest
    ELSE << -1 >>

\* b'OK\r\n'
OKCRLF == << 79, 75, 13, 10 >>

\* ------------------------------------------------------------ inputs

\* the command text of length L handed to command_check_OK (ASCII letters,
\* different at positions 16 apart, none of them a newline)
Text(L) == [i \in 1..L |-> 65 + ((i - 1) % 23)]

\* the texts sent under Spec: every length 0..MaxTextLen
TextLens == 0..MaxTextLen

\* one 20-byte frame as the peripheral puts it on the bus
Frame(t, idhi, idlo, l, data) == << t, idhi, idlo, l >> \o Pad16(data)

\* the 16-bit ids handed to the encoder under SpecCodec: both ends of the
\* range, both byte boundaries, the two opcodes of the driver, the sample id
\* of the protocol description, and ids whose two bytes differ or are equal
IdSample == { 0, 1, 255, 256, 257, ATCOMMAND, INITIALIZE, 32867, 4660, 65535 }

\* the message types handed to the encoder under SpecCodec
TypeSample == { COMMAND, RESPONSE, ALERT, ERROR }

\* "MyDevice\r\n"
MyDevice == << 77, 121, 68, 101, 118, 105, 99, 101, 13, 10 >>

\* 16 payload bytes that are all part of a message
Full16 == [i \in 1..MaxPayload |-> 96 + i]

\* the frames the peripheral answers with under Spec
FramesSpec ==
    { Frame(RESPONSE, 10, 0, 4, OKCRLF),
      Frame(ERROR, 128, 99, 0, << >>) }

\* the frames the peripheral answers with under SpecRx
FramesRx ==
    { Frame(RESPONSE, 10, 0, 4, OKCRLF),
      Frame(RESPONSE, 10, 0, 10, MyDevice),
      Frame(RESPONSE, 10, 0, MoreBit + 2, << 79, 75 >>),
      Frame(RESPONSE, 10, 0, 2, << 13, 10 >>),
      Frame(RESPONSE, 10, 0, MoreBit + 16, Full16),
      Frame(RESPONSE, 10, 0, 20, Full16),
      Frame(RESPONSE, 10, 0, 1, << 255 >>),
      Frame(RESPONSE, 10, 0, 0, << >>),
      Frame(ERROR, 128, 99, 0, << >>),
      Frame(ERROR, 10, 0, 2, << 79, 75 >>),
      Frame(ALERT, 10, 0, 2, << 79, 75 >>),
      Frame(COMMAND, 10, 0, 2, << 79, 75 >>) }

\* ------------------------------------------------------------ state

VARIABLES
    pc,          \* position of the driver in the running call
    cmd,         \* _cmd's argument: the text with its newline
    pos,         \* _cmd local
    more,        \* _cmd local
    timeout,     \* _cmd local, in ms
    msgtype,     \* _cmd local
    rspid,       \* _cmd local
    rsplen,      \* _cmd local
    rsp,         \* _cmd local
    buf_tx,      \* self._buf_tx
    buf_rx,      \* self._buf_rx
    irq,         \* self._irq.value, driven by the peripheral
    lock,        \* number of holders of the SPI bus lock
    cs,          \* chip-select line (TRUE = high = released)
    exc,         \* exception in flight inside a with-block
    wlog,        \* history: the byte strings written to the bus in this call
    rxlog,       \* history: the frames read from the bus in this call
    npolls,      \* history: reads of irq in the wait loop of this call
    slept,       \* history: ms slept in the wait loop of this call
    everIrq,     \* history: irq was asserted at some moment of the wait
    cmdOut,      \* how _cmd ended
    commandOut,  \* how command ended
    checkOut,    \* how command_check_OK ended
    initOut,     \* how init ended
    nready,      \* history: reads of irq in the receive loop that gave True
    codecIn      \* SpecCodec: the message handed to the frame encoder

vars ==
    << pc, cmd, pos, more, timeout, msgtype, rspid, rsplen, rsp, buf_tx, buf_rx,
       irq, lock, cs, exc, wlog, rxlog, npolls, slept, everIrq, cmdOut,
       commandOut, checkOut, initOut, nready, codecIn >>

locals == << cmd, pos, more, timeout, msgtype, rspid, rsplen, rsp >>

rxlocals == << msgtype, rspid, rsplen, rsp >>

bus == << lock, cs, exc >>

history == << wlog, rxlog, npolls, slept, everIrq >>

outs == << cmdOut, commandOut, checkOut, initOut >>

NoCmdOut == [kind |-> "none", msgtype |-> 0, rspid |-> 0, rsp |-> << >>]

NoCommandOut == [kind |-> "none", val |-> << >>, cause |-> "", idtext |-> << >>]

NoCheckOut == [kind |-> "none", text |-> << >>]

CmdRaise(k) == [NoCmdOut EXCEPT !.kind = k]

\* variant: the receive loop also stops after a frame whose more flag is clear
RxContinue_MoreFlag(irqv) ==
    /\ irqv = TRUE
    /\ (rxlog = << >> \/ rxlog[Len(rxlog)][4] >= MoreBit)

\* _cmd line 201: "while self._irq.value is True"
RxContinue(irqv) == irqv = TRUE

\* no message is handed to the encoder outside SpecCodec
NoCodecIn == [t |-> 0, id |-> 0, more |-> 0]

\* __init__: zeroed buffers, chip-select high, bus free
Init ==
    /\ pc = "idle"
    /\ cmd = << >> /\ pos = 0 /\ more = 0 /\ timeout = 0
    /\ msgtype = 0 /\ rspid = 0 /\ rsplen = 0 /\ rsp = << >>
    /\ buf_tx = [i \in 1..BufLen |-> 0]
    /\ buf_rx = [i \in 1..BufLen |-> 0]
    /\ irq \in BOOLEAN
    /\ lock = 0 /\ cs = TRUE /\ exc = "none"
    /\ wlog = << >> /\ rxlog = << >> /\ npolls = 0 /\ slept = 0 /\ everIrq = FALSE
    /\ cmdOut = NoCmdOut /\ commandOut = NoCommandOut /\ checkOut = NoCheckOut
    /\ initOut = "none"
    /\ nready = 0
    /\ codecIn = NoCodecIn

\* ------------------------------------------------------------ results

\* variant: the payload is handed back for every type that is not Error
CommandResult_AnyType(out) ==
    IF out.kind = "Timeout"
    THEN [NoCommandOut EXCEPT !.kind = "ATfail", !.cause = "Timeout"]
    ELSE IF out.kind # "return"
    THEN [NoCommandOut EXCEPT !.kind = out.kind]
    ELSE IF out.msgtype = ERROR
    THEN [NoCommandOut EXCEPT !.kind = "ATfail", !.cause = "Error",
                              !.idtext = HexDigits(out.rspid)]
    ELSE [NoCommandOut EXCEPT !.kind = "return", !.val = out.rsp]

\* variant: "except Exception" for "except RuntimeError"
CommandResult_CatchAll(out) ==
    IF out.kind \in {"Timeout", "ValueError", "OSError"}
    THEN [NoCommandOut EXCEPT !.kind = "ATfail", !.cause = out.kind]
    ELSE IF out.kind # "return"
    THEN [NoCommandOut EXCEPT !.kind = out.kind]
    ELSE IF out.msgtype = ERROR
    THEN [NoCommandOut EXCEPT !.kind = "ATfail", !.cause = "Error",
                              !.idtext = HexDigits(out.rspid)]
    ELSE IF out.msgtype = RESPONSE
    THEN [NoCommandOut EXCEPT !.kind = "return", !.val = out.rsp]
    ELSE [NoCommandOut EXCEPT !.kind = "returnNone"]

\* command: the try block around _cmd, given how _cmd ended
CommandResult(out) ==
    IF out.kind = "Timeout"
    THEN [NoCommandOut EXCEPT !.kind = "ATfail", !.cause = "Timeout"]
    ELSE IF out.kind # "return"
    THEN [NoCommandOut EXCEPT !.kind = out.kind]
    ELSE IF out.msgtype = ERROR
    THEN [NoCommandOut EXCEPT !.kind = "ATfail", !.cause = "Error",
                              !.idtext = HexDigits(out.rspid)]
    ELSE IF out.msgtype = RESPONSE
    THEN [NoCommandOut EXCEPT !.kind = "return", !.val = out.rsp]
    ELSE [NoCommandOut EXCEPT !.kind = "returnNone"]

\* mutant: the comparison with b'OK\r\n' forgotten
CheckReturned_NoSuffix(ret) ==
    IF ret = << >> \/ Tail_(ret, 4) = << >>
    THEN [NoCheckOut EXCEPT !.kind = "NotOk"]
    ELSE IF DropTail(ret, 4) # << >>
    THEN IF Utf8Decode(DropTail(ret, 4)) = << -1 >>
         THEN [NoCheckOut EXCEPT !.kind = "UnicodeError"]
         ELSE [NoCheckOut EXCEPT !.kind = "returnText",
                                 !.text = Utf8Decode(DropTail(ret, 4))]
    ELSE [NoCheckOut EXCEPT !.kind = "returnNone"]

\* command_check_OK after command returned ret (<< >> for None and for b"")
CheckReturned(ret) ==
    IF ret = << >> \/ Tail_(ret, 4) = << >>
    THEN [NoCheckOut EXCEPT !.kind = "NotOk"]
    ELSE IF Tail_(ret, 4) # OKCRLF
    THEN [NoCheckOut EXCEPT !.kind = "NotOk"]
    ELSE IF DropTail(ret, 4) # << >>
    THEN IF Utf8Decode(DropTail(ret, 4)) = << -1 >>
         THEN [NoCheckOut EXCEPT !.kind = "UnicodeError"]
         ELSE [NoCheckOut EXCEPT !.kind = "returnText",
                                 !.text = Utf8Decode(DropTail(ret, 4))]
    ELSE [NoCheckOut EXCEPT !.kind = "returnNone"]

\* command_check_OK, given how command ended
CheckResult(c) ==
    IF c.kind \in {"return", "returnNone"}
    THEN CheckReturned(c.val)
    ELSE [NoCheckOut EXCEPT !.kind = c.kind]

\* mutant: no release when the block raised (no with-statement)
ExitBus_Leak(e) ==
    IF e = "none" THEN [lock |-> 0, cs |-> TRUE] ELSE [lock |-> 1, cs |-> FALSE]

\* SPIDevice.__exit__ at the end of a with-block: chip-select released and
\* the bus unlocked, whether or not the block raised
ExitBus(e) == [lock |-> 0, cs |-> TRUE]

\* ------------------------------------------------------------ actions

\* init(): pack the header of the INITIALIZE command
CallInit ==
    /\ pc = "idle"
    /\ buf_tx' = PackInto_BHB(buf_tx, COMMAND, INITIALIZE, 0)
    /\ pc' = "init_enter"
    /\ UNCHANGED << locals, buf_rx, irq, bus, history, outs >>
    /\ UNCHANGED << nready, codecIn >>

\* command_check_OK(text) -> command(text) -> _cmd(text + "\n")
Call(lens) ==
    /\ pc = "idle"
    /\ \E L \in lens : cmd' = Text(L) \o << NewLine >>
    /\ pc' = "cmd_entry"
    /\ UNCHANGED << pos, more, timeout, rxlocals, buf_tx, buf_rx, irq, bus,
                    history, outs >>
    /\ UNCHANGED << nready, codecIn >>

\* _cmd: the length check, then the locals of the send loop
CmdEntry ==
    /\ pc = "cmd_entry"
    /\ IF TooLong(cmd)
       THEN /\ cmdOut' = CmdRaise("ValueError")
            /\ pc' = "command_ret"
            /\ UNCHANGED << pos, more >>
       ELSE /\ more' = MoreBit
            /\ pos' = 0
            /\ pc' = "send_loop"
            /\ UNCHANGED cmdOut
    /\ UNCHANGED << cmd, timeout, rxlocals, buf_tx, buf_rx, irq, bus, history,
                    commandOut, checkOut, initOut >>
    /\ UNCHANGED << nready, codecIn >>

\* _cmd: one test of "while len(cmd) - pos" and, inside, the packing of the
\* next chunk; after the loop "timeout = 0.2"
SendLoop ==
    /\ pc = "send_loop"
    /\ IF Len(cmd) - pos # 0
       THEN LET m == ChunkMore(Len(cmd) - pos, more)
                plen == ChunkLen(Len(cmd) - pos)
            IN /\ more' = m
               /\ buf_tx' = PackInto_BHB16s(buf_tx, COMMAND, ATCOMMAND, plen + m,
                                            Slice(cmd, pos, pos + plen))
               /\ pos' = pos + plen
               /\ pc' = "tx_enter"
               /\ UNCHANGED << timeout, everIrq >>
       ELSE /\ timeout' = TimeoutMs
            /\ everIrq' = irq
            /\ pc' = "wait"
            /\ UNCHANGED << more, buf_tx, pos >>
    /\ UNCHANGED << cmd, rxlocals, buf_rx, irq, bus, wlog, rxlog, npolls, slept,
                    outs >>
    /\ UNCHANGED << nready, codecIn >>

\* "with self._spi_device as spi": SPIDevice.__enter__ locks the bus and pulls
\* chip-select low
BusEnter ==
    /\ pc \in {"tx_enter", "rx_enter", "init_enter"}
    /\ lock = 0
    /\ lock' = lock + 1
    /\ cs' = FALSE
    /\ pc' = CASE pc = "tx_enter" -> "tx_write"
               [] pc = "rx_enter" -> "rx_read"
               [] pc = "init_enter" -> "init_write"
    /\ UNCHANGED << locals, buf_tx, buf_rx, irq, exc, history, outs >>
    /\ UNCHANGED << nready, codecIn >>

\* spi.write(...): the bytes go out, or the bus raises; the peripheral may
\* change the IRQ line meanwhile
BusWrite ==
    /\ pc \in {"tx_write", "init_write"}
    /\ \/ /\ wlog' = Append(wlog, IF pc = "tx_write"
                                  THEN TxWritten(buf_tx, Len(cmd))
                                  ELSE InitWritten(buf_tx))
          /\ UNCHANGED exc
       \/ /\ exc' = "OSError"
          /\ UNCHANGED wlog
    /\ irq' \in BOOLEAN
    /\ pc' = IF pc = "tx_write" THEN "tx_exit" ELSE "init_exit"
    /\ UNCHANGED << locals, buf_tx, buf_rx, lock, cs, rxlog, npolls, slept,
                    everIrq, outs >>
    /\ UNCHANGED << nready, codecIn >>

\* spi.readinto(self._buf_rx): one 20-byte frame of the peripheral, or the
\* bus raises; the peripheral drops the IRQ line after at most maxrx frames
BusRead(frames, maxrx) ==
    /\ pc = "rx_read"
    /\ \/ /\ \E f \in frames : buf_rx' = f
          /\ rxlog' = Append(rxlog, buf_rx')
          /\ irq' \in (IF Len(rxlog') >= maxrx THEN {FALSE} ELSE BOOLEAN)
          /\ UNCHANGED exc
       \/ /\ exc' = "OSError"
          /\ irq' \in (IF Len(rxlog) >= maxrx THEN {FALSE} ELSE BOOLEAN)
          /\ UNCHANGED << buf_rx, rxlog >>
    /\ pc' = "rx_exit"
    /\ UNCHANGED << locals, buf_tx, lock, cs, wlog, npolls, slept, everIrq, outs >>
    /\ UNCHANGED << nready, codecIn >>

\* the end of the with-block: SPIDevice.__exit__, then either the statement
\* after the block or the propagation of the exception out of _cmd / init
BusExit ==
    /\ pc \in {"tx_exit", "rx_exit", "init_exit"}
    /\ lock' = ExitBus(exc).lock
    /\ cs' = ExitBus(exc).cs
    /\ exc' = "none"
    /\ IF exc = "none"
       THEN /\ pc' = CASE pc = "tx_exit" -> "send_loop"
                       [] pc = "rx_exit" -> "rx_decode"
                       [] pc = "init_exit" -> "init_sleep"
            /\ UNCHANGED << cmdOut, initOut >>
       ELSE IF pc = "init_exit"
       THEN /\ initOut' = exc
            /\ pc' = "done"
            /\ UNCHANGED cmdOut
       ELSE /\ cmdOut' = CmdRaise(exc)
            /\ pc' = "command_ret"
            /\ UNCHANGED initOut
    /\ UNCHANGED << locals, buf_tx, buf_rx, irq, history, commandOut, checkOut >>
    /\ UNCHANGED << nready, codecIn >>

\* init: "time.sleep(1)", then the return
InitSleep ==
    /\ pc = "init_sleep"
    /\ irq' \in BOOLEAN
    /\ initOut' = "return"
    /\ pc' = "done"
    /\ UNCHANGED << locals, buf_tx, buf_rx, bus, history, cmdOut, commandOut,
                    checkOut >>
    /\ UNCHANGED << nready, codecIn >>

\* _cmd: one test of "while timeout > 0 and not self._irq.value" (irq is read
\* only when timeout > 0) and, inside, the 10 ms sleep
WaitLoop ==
    /\ pc = "wait"
    /\ npolls' = IF timeout > 0 THEN npolls + 1 ELSE npolls
    /\ IF WaitContinue(timeout, irq)
       THEN /\ timeout' = timeout - PollMs
            /\ slept' = slept + PollMs
            /\ irq' \in BOOLEAN
            /\ everIrq' = (everIrq \/ irq')
            /\ pc' = "wait"
       ELSE /\ pc' = "wait_done"
            /\ UNCHANGED << timeout, slept, irq, everIrq >>
    /\ UNCHANGED << cmd, pos, more, rxlocals, buf_tx, buf_rx, bus, wlog, rxlog,
                    outs >>
    /\ UNCHANGED << nready, codecIn >>

\* _cmd: "if timeout <= 0: raise", else the locals of the receive loop
WaitDone ==
    /\ pc = "wait_done"
    /\ IF WaitTimedOut(timeout)
       THEN /\ cmdOut' = CmdRaise("Timeout")
            /\ pc' = "command_ret"
            /\ UNCHANGED rxlocals
       ELSE /\ msgtype' = 0 /\ rspid' = 0 /\ rsplen' = 0 /\ rsp' = << >>
            /\ pc' = "rx_loop"
            /\ UNCHANGED cmdOut
    \* the line belongs to the peripheral: the read at line 201 is a new
    \* read and need not repeat what the read at line 188 gave
    /\ irq' \in (IF WaitTimedOut(timeout) THEN {irq} ELSE BOOLEAN)
    /\ UNCHANGED << cmd, pos, more, timeout, buf_tx, buf_rx, bus, history,
                    commandOut, checkOut, initOut >>
    /\ UNCHANGED << nready, codecIn >>

\* _cmd: one test of "while self._irq.value is True" and, inside, the 10 ms
\* sleep before the read; after the loop the return
RxLoop ==
    /\ pc = "rx_loop"
    /\ IF RxContinue(irq)
       THEN /\ irq' \in BOOLEAN
            /\ pc' = "rx_enter"
            /\ nready' = nready + 1
            /\ UNCHANGED cmdOut
       ELSE /\ cmdOut' = [kind |-> "return", msgtype |-> msgtype,
                          rspid |-> rspid, rsp |-> rsp]
            /\ pc' = "command_ret"
            /\ UNCHANGED << irq, nready >>
    /\ UNCHANGED << locals, buf_tx, buf_rx, bus, history, commandOut, checkOut,
                    initOut >>
    /\ UNCHANGED codecIn

\* variant: the type and the id of the first frame are kept
RxDecode_KeepFirst ==
    /\ pc = "rx_decode"
    /\ LET h == Unpack_BHB(buf_rx)
       IN /\ msgtype' = IF Len(rxlog) > 1 THEN msgtype ELSE h.msgtype
          /\ rspid' = IF Len(rxlog) > 1 THEN rspid ELSE h.rspid
          /\ rsplen' = h.rsplen
          /\ rsp' = rsp \o RxPayload(buf_rx, h.rsplen)
    /\ pc' = "rx_loop"
    /\ UNCHANGED << cmd, pos, more, timeout, buf_tx, buf_rx, irq, bus, history,
                    outs >>
    /\ UNCHANGED << nready, codecIn >>

\* _cmd: unpack the envelope of the frame just read and append its payload
RxDecode ==
    /\ pc = "rx_decode"
    /\ LET h == Unpack_BHB(buf_rx)
       IN /\ msgtype' = h.msgtype
          /\ rspid' = h.rspid
          /\ rsplen' = h.rsplen
          /\ rsp' = rsp \o RxPayload(buf_rx, h.rsplen)
    /\ pc' = "rx_loop"
    /\ UNCHANGED << cmd, pos, more, timeout, buf_tx, buf_rx, irq, bus, history,
                    outs >>
    /\ UNCHANGED << nready, codecIn >>

\* command: classify what _cmd returned or raised
CommandRet ==
    /\ pc = "command_ret"
    /\ commandOut' = CommandResult(cmdOut)
    /\ pc' = "check_ret"
    /\ UNCHANGED << locals, buf_tx, buf_rx, irq, bus, history, cmdOut, checkOut,
                    initOut >>
    /\ UNCHANGED << nready, codecIn >>

\* command_check_OK: the checks on what command returned
CheckRet ==
    /\ pc = "check_ret"
    /\ checkOut' = CheckResult(commandOut)
    /\ pc' = "done"
    /\ UNCHANGED << locals, buf_tx, buf_rx, irq, bus, history, cmdOut,
                    commandOut, initOut >>
    /\ UNCHANGED << nready, codecIn >>

\* the call is over: its locals and results are gone, the buffers and the
\* bus stay; time passes before the next call
Finish ==
    /\ pc = "done"
    /\ pc' = "idle"
    /\ cmd' = << >> /\ pos' = 0 /\ more' = 0 /\ timeout' = 0
    /\ msgtype' = 0 /\ rspid' = 0 /\ rsplen' = 0 /\ rsp' = << >>
    /\ wlog' = << >> /\ rxlog' = << >> /\ npolls' = 0 /\ slept' = 0
    /\ everIrq' = FALSE
    /\ cmdOut' = NoCmdOut /\ commandOut' = NoCommandOut /\ checkOut' = NoCheckOut
    /\ initOut' = "none"
    /\ irq' \in BOOLEAN
    /\ UNCHANGED << buf_tx, buf_rx, bus >>
    /\ nready' = 0
    /\ UNCHANGED codecIn

\* every command length, a peripheral with two answers
Next ==
    \/ CallInit
    \/ Call(TextLens)
    \/ CmdEntry
    \/ SendLoop
    \/ BusEnter
    \/ BusWrite
    \/ BusRead(FramesSpec, MaxRx)
    \/ BusExit
    \/ InitSleep
    \/ WaitLoop
    \/ WaitDone
    \/ RxLoop
    \/ RxDecode
    \/ CommandRet
    \/ CheckRet
    \/ Finish

Spec == Init /\ [][Next]_vars

\* one command, a peripheral with many answers
NextRx ==
    \/ CallInit
    \/ Call({RxTextLen})
    \/ CmdEntry
    \/ SendLoop
    \/ BusEnter
    \/ BusWrite
    \/ BusRead(FramesRx, MaxRxFrames)
    \/ BusExit
    \/ InitSleep
    \/ WaitLoop
    \/ WaitDone
    \/ RxLoop
    \/ RxDecode
    \/ CommandRet
    \/ CheckRet
    \/ Finish

SpecRx == Init /\ [][NextRx]_vars

\* ------------------------------------------------------------ properties

\* ------------------------------------------------------------ the codec alone

\* the frame encoder and decoder of _cmd as pure functions: a message type,
\* an id and a payload slice of 0..16 bytes are packed as lines 174-176 pack
\* them, the 20 bytes come back unchanged, and lines 207-212 decode them.
\* The more flag is drawn as _cmd draws it: set only on a full 16-byte slice
\* (lines 169-172).  The transmit buffer starts with zeros or with the bytes
\* of an earlier frame.
InitCodec ==
    /\ pc = "codec_encode"
    /\ \E L \in 0..MaxPayload : cmd = Text(L)
    /\ \E t \in TypeSample, id \in IdSample, m \in {0, MoreBit} :
          /\ m = MoreBit => Len(cmd) = MaxPayload
          /\ codecIn = [t |-> t, id |-> id, more |-> m]
    /\ pos = 0 /\ more = 0 /\ timeout = 0
    /\ msgtype = 0 /\ rspid = 0 /\ rsplen = 0 /\ rsp = << >>
    /\ buf_tx \in { [i \in 1..BufLen |-> 0], Frame(ERROR, 128, 99, 20, Full16) }
    /\ buf_rx = [i \in 1..BufLen |-> 0]
    /\ irq = FALSE
    /\ lock = 0 /\ cs = TRUE /\ exc = "none"
    /\ wlog = << >> /\ rxlog = << >> /\ npolls = 0 /\ slept = 0 /\ everIrq = FALSE
    /\ cmdOut = NoCmdOut /\ commandOut = NoCommandOut /\ checkOut = NoCheckOut
    /\ initOut = "none"
    /\ nready = 0

\* struct.pack_into("<BHB16s", self._buf_tx, 0, type, id, plen | more, slice)
CodecEncode ==
    /\ pc = "codec_encode"
    /\ buf_tx' = PackInto_BHB16s(buf_tx, codecIn.t, codecIn.id,
                                 Len(cmd) + codecIn.more, cmd)
    /\ pc' = "codec_wire"
    /\ UNCHANGED << cmd, pos, more, timeout, rxlocals, buf_rx, irq, bus, history,
                    outs, nready, codecIn >>

\* the 20 bytes of the transmit buffer arrive in the receive buffer
CodecWire ==
    /\ pc = "codec_wire"
    /\ buf_rx' = buf_tx
    /\ pc' = "rx_decode"
    /\ UNCHANGED << cmd, pos, more, timeout, rxlocals, buf_tx, irq, bus, history,
                    outs, nready, codecIn >>

NextCodec ==
    \/ CodecEncode
    \/ CodecWire
    \/ RxDecode

SpecCodec == InitCodec /\ [][NextCodec]_vars

\* ------------------------------------------------------------ progress

\* the driver under the assumption that it keeps running: a call that can
\* take its next step takes it.  The peripheral is the one of NextRx with two
\* answers: it asserts and drops the line as it likes, and it drops the line
\* after at most MaxRxFrames frames, which is the fairness the receive loop
\* depends on.
NextLive ==
    \/ CallInit
    \/ Call({0, LiveTextLen})
    \/ CmdEntry
    \/ SendLoop
    \/ BusEnter
    \/ BusWrite
    \/ BusRead(FramesSpec, MaxRxFrames)
    \/ BusExit
    \/ InitSleep
    \/ WaitLoop
    \/ WaitDone
    \/ RxLoop
    \/ RxDecode
    \/ CommandRet
    \/ CheckRet
    \/ Finish

SpecLive == Init /\ [][NextLive]_vars /\ WF_vars(NextLive)

\* _cmd is past its send loop with every write done
SendDone ==
    \/ pc \in {"wait", "wait_done", "rx_loop", "rx_enter", "rx_read", "rx_exit",
               "rx_decode"}
    \/ cmdOut.kind \in {"return", "Timeout"}
    \/ cmdOut.kind = "OSError" /\ npolls > 0

\* ceil(L / 16)
FrameCount(L) == (L + MaxPayload - 1) \div MaxPayload

\* the low 7 bits of the length byte of a written frame
LenField(w) == w[4] % MoreBit

\* the more flag of a written frame
MoreFlag(w) == w[4] \div MoreBit = 1

\* the payloads of the frames of a log, each cut to its length field, in order
RECURSIVE Payloads(_)
Payloads(log) ==
    IF log = << >> THEN << >>
    ELSE Slice(log[1], 4, 4 + LenField(log[1])) \o Payloads(Tail(log))

\* C1: for a command of length 1..127 _cmd writes exactly ceil(L/16) frames,
\* whether it then succeeds or times out; every length field is at most 16,
\* and the more flag 0x80 is set in every frame but the last.
C1_FragmentCount ==
    SendDone =>
        /\ Len(cmd) \in 1..MaxCmdLen
        /\ Len(wlog) = FrameCount(Len(cmd))
        /\ \A i \in 1..Len(wlog) :
              /\ LenField(wlog[i]) <= 16
              /\ MoreFlag(wlog[i]) <=> (i < Len(wlog))

C1_Witness ==
    /\ pc = "done"
    /\ cmdOut.kind = "Timeout"
    /\ Len(cmd) = 127
    /\ Len(wlog) = 8
    /\ ~MoreFlag(wlog[8])
    /\ MoreFlag(wlog[7])

\* C2: the payloads of the written frames, each cut to its length field and
\* concatenated in the order of transmission, are the command; every frame
\* but the last carries 16 payload bytes.
C2_PayloadsAreCommand ==
    SendDone =>
        /\ Payloads(wlog) = cmd
        /\ \A i \in 1..(Len(wlog) - 1) : LenField(wlog[i]) = 16

C2_Witness ==
    /\ pc = "done"
    /\ cmdOut.kind = "return"
    /\ Len(cmd) = 33
    /\ Len(wlog) = 3
    /\ Payloads(wlog) = cmd

C4_TimeoutBudget ==
    /\ (pc = "command_ret" /\ npolls > 0 /\ ~everIrq) => cmdOut.kind = "Timeout"
    /\ cmdOut.kind = "Timeout" =>
          /\ slept >= 200 /\ slept <= 200 + 10
          /\ npolls \in {20, 21}
          /\ rxlog = << >>
          /\ Len(wlog) = FrameCount(Len(cmd))
          /\ (pc \in {"check_ret", "done"} =>
                 commandOut.kind = "ATfail" /\ commandOut.cause = "Timeout")

C4_Witness ==
    /\ pc = "done"
    /\ cmdOut.kind = "Timeout"
    /\ ~everIrq
    /\ slept = 200
    /\ commandOut.cause = "Timeout"

\* C5: at the end of the wait _cmd raises the timeout if and only if the IRQ
\* line is not asserted: a line that became asserted before the 200 ms were
\* over, the last 10 ms included, and is still asserted makes the wait succeed.
C5_TimeoutIffNeverReady ==
    [][pc = "wait_done" => ((cmdOut'.kind = "Timeout") <=> ~irq)]_vars

\* the first n payload bytes of every frame read, n the length byte masked to
\* its low 7 bits and at most 16, in the order of the reads
RECURSIVE MaskedPayloads(_)
MaskedPayloads(log) ==
    IF log = << >> THEN << >>
    ELSE SubSeq(log[1], 5, 4 + Min(log[1][4] % 128, 16))
             \o MaskedPayloads(Tail(log))

\* C6: the payload _cmd returns is the concatenation, in the order of the
\* reads, of the first n payload bytes of each frame read, n being the length
\* byte masked to its low 7 bits (16 when that is 16 or more); padding bytes
\* of frames that carry the more flag are not part of it.
C6_MaskedReassembly ==
    cmdOut.kind = "return" => cmdOut.rsp = MaskedPayloads(rxlog)

\* the frame whose envelope command adopts: the last one read
LastFrame == rxlog[Len(rxlog)]

\* C7: when the last frame read has message type Error (0x80), command raises
\* and returns no payload, and the id recovered from the hex text of the error
\* is byte 1 * 256 + byte 2 of that frame (0x80, 0x63 give 0x8063).
C7_ErrorIdRecoverable ==
    (pc \in {"check_ret", "done"} /\ cmdOut.kind = "return" /\ rxlog # << >>
        /\ LastFrame[1] = 128) =>
        /\ commandOut.kind = "ATfail"
        /\ commandOut.cause = "Error"
        /\ commandOut.val = << >>
        /\ ParseHex(commandOut.idtext) = LastFrame[2] * 256 + LastFrame[3]
        /\ (LastFrame[2] = 128 /\ LastFrame[3] = 99 =>
               ParseHex(commandOut.idtext) = 32867)

C7_Witness ==
    /\ pc = "done"
    /\ commandOut.kind = "ATfail"
    /\ commandOut.cause = "Error"
    /\ commandOut.idtext = << 8, 0, 6, 3 >>
    /\ Len(rxlog) = 2

\* command returned (a payload or None) and command_check_OK is over
CheckedReturn == pc = "done" /\ commandOut.kind \in {"return", "returnNone"}

\* command returned no payload: None or an empty one
NoPayload == commandOut.kind = "returnNone" \/ commandOut.val = << >>

\* the payload command returned ends with 'O', 'K', CR, LF
EndsWithOK ==
    LET ret == commandOut.val
    IN /\ Len(ret) >= 4
       /\ ret[Len(ret) - 3] = 79 /\ ret[Len(ret) - 2] = 75
       /\ ret[Len(ret) - 1] = 13 /\ ret[Len(ret)] = 10

\* the payload command returned, without its last 4 bytes
Prefix == [i \in 1..(Len(commandOut.val) - 4) |-> commandOut.val[i]]

\* C8 as stated: NotOk exactly when there is no payload or the payload does
\* not end with OK CR LF; otherwise the prefix is returned as text when it is
\* not empty, and nothing when the payload is the sentinel alone.
C8_CheckOK_Stated ==
    CheckedReturn =>
        /\ checkOut.kind = "NotOk" <=> (NoPayload \/ ~EndsWithOK)
        /\ (~NoPayload /\ EndsWithOK) =>
               IF Len(commandOut.val) > 4
               THEN checkOut.kind = "returnText" /\ checkOut.text = Prefix
               ELSE checkOut.kind = "returnNone"

\* C8 amended: as stated, but a non-empty prefix is returned as text only
\* when it decodes as UTF-8 (here: ASCII); a prefix holding a byte that is no
\* UTF-8 (0xFF) makes command_check_OK raise the decoder's error instead.
C8_CheckOK ==
    CheckedReturn =>
        /\ checkOut.kind = "NotOk" <=> (NoPayload \/ ~EndsWithOK)
        /\ (~NoPayload /\ EndsWithOK) =>
               IF Len(commandOut.val) = 4
               THEN checkOut.kind = "returnNone"
               ELSE IF \A i \in 1..Len(Prefix) : Prefix[i] < 128
               THEN checkOut.kind = "returnText" /\ checkOut.text = Prefix
               ELSE IF \E i \in 1..Len(Prefix) : Prefix[i] = 255
               THEN checkOut.kind = "UnicodeError"
               ELSE TRUE

C8_Witness ==
    /\ pc = "done"
    /\ commandOut.kind = "return"
    /\ commandOut.val = MyDevice \o OKCRLF
    /\ checkOut.kind = "returnText"
    /\ checkOut.text = MyDevice

\* the positions inside a with-block, after __enter__ and before __exit__
InTransfer == {"tx_write", "rx_read", "init_write"}

AtExit == {"tx_exit", "rx_exit", "init_exit"}

\* C9: the bus lock has at most one holder; it is taken right before one
\* write or read and given back right after it, also when the transfer
\* raised; whenever init, _cmd, command or command_check_OK has returned or
\* raised the lock is free and chip-select is high.
C9_ScopedLock ==
    /\ [](/\ lock \in {0, 1}
          /\ lock = 1 <=> pc \in InTransfer \cup AtExit
          /\ cs <=> lock = 0
          /\ (lock = 1 /\ exc # "none") => pc \in AtExit
          /\ pc \in {"idle", "command_ret", "check_ret", "done"} =>
                 lock = 0 /\ cs)
    /\ [][/\ (wlog' # wlog \/ rxlog' # rxlog \/ exc' # "none") =>
                 (lock = 1 /\ lock' = 1 /\ pc \in InTransfer /\ pc' \in AtExit
                  /\ Len(wlog') + Len(rxlog') <= Len(wlog) + Len(rxlog) + 1)
                 \/ pc' = "idle"
          /\ pc \in AtExit => (lock' = 0 /\ cs')]_vars

C9_Witness ==
    /\ pc = "done"
    /\ cmdOut.kind = "OSError"
    /\ Len(wlog) = 2
    /\ rxlog = << >>
    /\ npolls = 0
    /\ lock = 0
    /\ cs

\* C10 as stated: everything handed to the bus is 20 bytes long.
C10_Always20_Stated == \A i \in 1..Len(wlog) : Len(wlog[i]) = 20

\* the 20-byte frame of the i-th chunk of the command: header, chunk, zeros
ChunkFrame(i) ==
    LET lo == 16 * (i - 1)
        n == Min(16, Len(cmd) - lo)
        flag == IF lo + 16 < Len(cmd) THEN 128 ELSE 0
    IN [k \in 1..20 |->
           CASE k = 1 -> 16
             [] k = 2 -> 0
             [] k = 3 -> 10
             [] k = 4 -> n + flag
             [] k > 4 /\ k - 4 <= n -> cmd[lo + k - 4]
             [] OTHER -> 0]

\* C10 amended: the transmit buffer is always 20 bytes and _cmd fills it with
\* the 4-byte header and the chunk zero-padded to 16 bytes, whatever it held
\* before; what is handed to the bus is its first min(20, len(cmd) + 4) bytes
\* (20 only for commands of 16 bytes or more), and init hands over the 4
\* header bytes 10 EF BE 00 only.
C10_FrameBytes ==
    /\ Len(buf_tx) = 20
    /\ pc \in {"tx_enter", "tx_write", "tx_exit"} =>
           buf_tx = ChunkFrame(Len(wlog) + (IF pc = "tx_exit" /\ exc = "none"
                                            THEN 0 ELSE 1))
    /\ \A i \in 1..Len(wlog) :
          IF cmd = << >>
          THEN wlog[i] = << 16, 239, 190, 0 >>
          ELSE /\ Len(wlog[i]) = Min(20, Len(cmd) + 4)
               /\ wlog[i] = SubSeq(ChunkFrame(i), 1, Len(wlog[i]))

C10_Witness ==
    /\ pc = "tx_exit"
    /\ Len(cmd) = 3
    /\ Len(wlog) = 1
    /\ Len(wlog[1]) = 7
    /\ buf_rx[1] = ERROR
    /\ buf_tx = ChunkFrame(1)

\* ------------------------------------------------------------ C11

\* the message type _cmd hands back: that of the last frame read, 0 when the
\* receive loop read no frame
AdoptedType == IF rxlog = << >> THEN 0 ELSE LastFrame[1]

\* C11: command classifies by the adopted message type only: it raises the
\* protocol error exactly when the type is Error, returns the raw payload
\* exactly when the type is Response (so at least one frame was read), and
\* for every other type (Alert, Command, the initial 0 of a call that read no
\* frame) it returns nothing and raises nothing.
C11_ClassifyByType ==
    (pc \in {"check_ret", "done"} /\ cmdOut.kind = "return") =>
        /\ (commandOut.kind = "ATfail" /\ commandOut.cause = "Error")
              <=> AdoptedType = ERROR
        /\ commandOut.kind = "return" <=> AdoptedType = RESPONSE
        /\ commandOut.kind = "return" =>
              rxlog # << >> /\ commandOut.val = cmdOut.rsp
        /\ AdoptedType \notin {ERROR, RESPONSE} =>
              commandOut = [NoCommandOut EXCEPT !.kind = "returnNone"]
        /\ commandOut.kind \in {"ATfail", "return", "returnNone"}

C11_Witness ==
    /\ pc = "done"
    /\ cmdOut.kind = "return"
    /\ rxlog = << >>
    /\ npolls > 0
    /\ commandOut.kind = "returnNone"

\* an Alert frame and a Command frame are each classified as "nothing"
C11_WitnessAlert ==
    /\ pc = "done"
    /\ rxlog # << >>
    /\ LastFrame[1] = ALERT
    /\ commandOut.kind = "returnNone"

\* ------------------------------------------------------------ C12

\* a header read with the outbound convention: type, id low byte first, and
\* the length byte without its more flag
OutboundType(buf) == buf[1]

OutboundId(buf) == buf[2] + 256 * buf[3]

OutboundLen(buf) == buf[4] % MoreBit

\* C12: a frame encoded from a message type, a 16-bit id and a payload of
\* 0..16 bytes, read back with the outbound header convention, gives the same
\* type, the same id and the same payload bytes; and the decoder of the receive
\* loop takes from it the same type and the same payload.
C12_RoundTrip ==
    /\ (pc \in {"codec_wire", "rx_decode", "rx_loop"} /\ codecIn # NoCodecIn) =>
          /\ Len(buf_tx) = BufLen
          /\ OutboundType(buf_tx) = codecIn.t
          /\ OutboundId(buf_tx) = codecIn.id
          /\ OutboundLen(buf_tx) = Len(cmd)
          /\ SubSeq(buf_tx, 5, 4 + OutboundLen(buf_tx)) = cmd
    /\ (pc = "rx_loop" /\ codecIn # NoCodecIn) =>
          /\ msgtype = codecIn.t
          /\ rsplen % MoreBit = Len(cmd)
          /\ rsp = cmd

C12_Witness ==
    /\ pc = "rx_loop"
    /\ codecIn.id = 65535
    /\ codecIn.t = ALERT
    /\ codecIn.more = MoreBit
    /\ Len(cmd) = MaxPayload
    /\ rsp = cmd
    /\ OutboundId(buf_tx) = 65535

\* ------------------------------------------------------------ C17

\* the two bytes of a 16-bit id exchanged
ByteSwap(id) == (id % 256) * 256 + id \div 256

\* C17: the encoder writes the id's low byte at offset 1 and its high byte at
\* offset 2; the decoder computes id = byte[1] * 256 + byte[2]; so the decoder
\* applied to a header the encoder produced gives the byte-swapped id, with
\* the type byte and the length byte as they were written.
C17_ByteOrderAsymmetry ==
    /\ (pc \in {"codec_wire", "rx_decode", "rx_loop"} /\ codecIn # NoCodecIn) =>
          /\ buf_tx[2] = codecIn.id % 256
          /\ buf_tx[3] = codecIn.id \div 256
    /\ (pc = "rx_loop" /\ codecIn # NoCodecIn) =>
          /\ rspid = buf_rx[2] * 256 + buf_rx[3]
          /\ rspid = ByteSwap(codecIn.id)
          /\ msgtype = codecIn.t
          /\ rsplen = Len(cmd) + codecIn.more

C17_Witness ==
    /\ pc = "rx_loop"
    /\ codecIn.id = ATCOMMAND
    /\ buf_tx[2] = 0
    /\ buf_tx[3] = 10
    /\ rspid = 10
    /\ rspid # codecIn.id

\* ------------------------------------------------------------ C13

\* the phase of the protocol a position of _cmd belongs to: 0 before the
\* call (and in init), 1 Sending, 2 WaitingForResponse, 3 Receiving, 4 back
\* in the caller
Phase(p) ==
    CASE p \in {"send_loop", "tx_enter", "tx_write", "tx_exit"} -> 1
      [] p \in {"wait", "wait_done"} -> 2
      [] p \in {"rx_loop", "rx_enter", "rx_read", "rx_exit", "rx_decode"} -> 3
      [] p \in {"command_ret", "check_ret", "done"} -> 4
      [] OTHER -> 0

\* one step keeps the order of the phases, writes the next fragment only when
\* the earlier writes are complete, polls only after the last fragment, and
\* reads only after a wait that ended with the signal asserted
C13_Step ==
    /\ \/ Phase(pc') = Phase(pc)
       \/ Phase(pc) < 3 /\ Phase(pc') = Phase(pc) + 1
       \/ Phase(pc') = 4
       \/ Phase(pc) = 4 /\ Phase(pc') = 0
    /\ (pc = "tx_write" /\ wlog' # wlog) =>
          /\ lock = 1
          /\ pos = Min(MaxPayload * (Len(wlog) + 1), Len(cmd))
          /\ Len(wlog) < FrameCount(Len(cmd))
          /\ npolls = 0
          /\ rxlog = << >>
    /\ pc' = "tx_write" => lock = 0 /\ cs
    /\ npolls' # npolls /\ npolls' # 0 =>
          /\ Len(wlog) = FrameCount(Len(cmd))
          /\ pos = Len(cmd)
          /\ lock = 0
          /\ rxlog = << >>
    /\ (pc = "wait" /\ pc' = "wait_done" /\ timeout > 0) => irq
    /\ Phase(pc') = 3 =>
          /\ timeout > 0
          /\ npolls >= 1
          /\ Len(wlog') = FrameCount(Len(cmd))
    /\ (Phase(pc) \in {2, 3} /\ pc' # "idle") => wlog' = wlog

\* C13: within one _cmd call the phases come in the order Idle, Sending,
\* WaitingForResponse, Receiving, Idle; fragment i+1 is written only after the
\* write of fragment i has completed, the ready signal is first polled only
\* after the last fragment was written, every read happens after the wait
\* ended with the signal asserted, and no write follows a poll or a read in
\* the same call.
C13_PhaseOrder == [][C13_Step]_vars

C13_Witness ==
    /\ pc = "rx_decode"
    /\ Len(wlog) = 3
    /\ npolls = 2
    /\ Len(rxlog) = 1

\* ------------------------------------------------------------ C14

\* the more flag and the length field of a frame read
RxMore(f) == f[4] >= MoreBit

\* C14: in the receive loop a frame is read exactly when the check of the
\* ready signal just before it read true, and the loop is left at the first
\* check that reads false: the step out of the loop test depends on the
\* signal alone, whatever the frames read so far hold, and the number of
\* frames read is the number of true readings.
C14_Step ==
    /\ pc = "rx_loop" =>
          /\ irq => pc' = "rx_enter" /\ nready' = nready + 1
          /\ ~irq => pc' = "command_ret" /\ cmdOut'.kind = "return"
                        /\ nready' = nready /\ rxlog' = rxlog
    /\ rxlog' # rxlog /\ pc' # "idle" =>
          /\ pc = "rx_read"
          /\ Len(rxlog') = nready
    /\ Phase(pc) = 3 /\ exc' = "none" /\ Phase(pc') = 3 =>
          Len(rxlog') = nready' - (IF pc' \in {"rx_enter", "rx_read"} THEN 1 ELSE 0)
    /\ (pc = "rx_loop" /\ pc' = "command_ret") => Len(rxlog) = nready /\ ~irq

C14_SignalOnly == [][C14_Step]_vars

\* two frames were read although the first one carried no more flag and a
\* length of zero
C14_Witness ==
    /\ pc = "command_ret"
    /\ cmdOut.kind = "return"
    /\ nready = 2
    /\ Len(rxlog) = 2
    /\ ~RxMore(rxlog[1])
    /\ rxlog[1][4] = 0
    /\ rxlog[1][1] = ERROR

\* ------------------------------------------------------------ C15

\* what the receive loop appends for the frames of a log, in order
RECURSIVE RxPayloads(_)
RxPayloads(log) ==
    IF log = << >> THEN << >>
    ELSE RxPayload(log[1], log[1][4]) \o RxPayloads(Tail(log))

\* _cmd has returned normally and command has not yet looked at the result
CmdReturned == pc = "command_ret" /\ cmdOut.kind = "return"

\* C15 as stated: the read sequence ends when a frame's continuation flag is
\* clear or the ready signal goes low, so every frame that was followed by
\* another read carried the more flag, and _cmd returns only on one of the two.
C15_EndsOnFlagOrSignal_Stated ==
    /\ \A i \in 1..(Len(rxlog) - 1) : RxMore(rxlog[i])
    /\ CmdReturned => (~irq \/ (rxlog # << >> /\ ~RxMore(LastFrame)))

\* C15 amended: the read sequence ends only when the ready signal reads low;
\* _cmd then returns the message built from every frame read so far, also
\* when the last frame read carries the more flag, and a frame whose more
\* flag is clear does not end the sequence.
C15_EndsOnSignalLow ==
    /\ CmdReturned =>
          /\ ~irq
          /\ cmdOut.rsp = RxPayloads(rxlog)
    /\ (pc = "rx_enter" /\ rxlog # << >>) => nready = Len(rxlog) + 1

C15_Witness ==
    /\ CmdReturned
    /\ Len(rxlog) = 2
    /\ rxlog[1] = Frame(RESPONSE, 10, 0, 4, OKCRLF)
    /\ RxMore(rxlog[2])
    /\ ~irq

\* ------------------------------------------------------------ C16

\* command is past _cmd, which returned normally after reading frames
CommandSettled ==
    pc \in {"check_ret", "done"} /\ cmdOut.kind = "return" /\ rxlog # << >>

\* C16: the type and the id _cmd hands back are those of the frame read last,
\* while the payload is what every frame read contributed, in order.  So an
\* Error frame followed by a Response frame makes command return the payload
\* of both without raising, and a Response frame followed by an Error frame
\* makes it raise with the id of the Error frame.
C16_LastFrameWins ==
    /\ (Phase(pc) = 3 /\ pc = "rx_loop" /\ rxlog # << >>) =>
          /\ msgtype = LastFrame[1]
          /\ rspid = LastFrame[2] * 256 + LastFrame[3]
          /\ rsp = RxPayloads(rxlog)
    /\ CommandSettled =>
          /\ cmdOut.msgtype = LastFrame[1]
          /\ cmdOut.rspid = LastFrame[2] * 256 + LastFrame[3]
          /\ LastFrame[1] = RESPONSE =>
                /\ commandOut.kind = "return"
                /\ commandOut.val = RxPayloads(rxlog)
          /\ LastFrame[1] = ERROR =>
                /\ commandOut.kind = "ATfail"
                /\ commandOut.cause = "Error"
                /\ commandOut.idtext =
                      HexDigits(LastFrame[2] * 256 + LastFrame[3])

\* an Error frame with payload "OK", then the Response frame "OK\r\n"
C16_Witness ==
    /\ CommandSettled
    /\ rxlog = << Frame(ERROR, 10, 0, 2, << 79, 75 >>),
                  Frame(RESPONSE, 10, 0, 4, OKCRLF) >>
    /\ commandOut.kind = "return"
    /\ commandOut.val = << 79, 75, 79, 75, 13, 10 >>

\* the Response frame "OK\r\n", then an Error frame with id 0x8063
C16_WitnessRaise ==
    /\ CommandSettled
    /\ rxlog = << Frame(RESPONSE, 10, 0, 4, OKCRLF), Frame(ERROR, 128, 99, 0, << >>) >>
    /\ commandOut.kind = "ATfail"
    /\ commandOut.idtext = << 8, 0, 6, 3 >>

\* ------------------------------------------------------------ C18

\* init is running or has just ended
InInit == pc \in {"init_enter", "init_write", "init_exit", "init_sleep"}

InitEnded == initOut # "none"

\* one step of init: the receive buffer, the poll count and the frames read
\* stay as they are, and the normal return follows the sleep
C18_Step ==
    /\ InInit =>
          /\ buf_rx' = buf_rx
          /\ npolls' = 0
          /\ rxlog' = << >>
          /\ Phase(pc') \in {0, 4}
    /\ (initOut = "none" /\ initOut' = "return") => pc = "init_sleep"
    /\ pc = "init_write" /\ wlog' # wlog =>
          wlog' = << << COMMAND, INITIALIZE % 256, INITIALIZE \div 256, 0 >> >>
    /\ InitEnded' =>
          /\ initOut' \in {"return", "OSError"}
          /\ cmdOut' = NoCmdOut /\ commandOut' = NoCommandOut
          /\ initOut' = "return" =>
                wlog' = << << 16, 239, 190, 0 >> >>
          /\ initOut' = "OSError" => wlog' = << >>

\* C18: init makes exactly one bus write, of a Command frame (0x10) with the
\* opcode 0xBEEF and payload length 0, and returns after the sleep; it never
\* polls the ready signal, never reads from the bus, raises no protocol
\* error (only a failure of the bus itself comes out), and leaves the receive
\* buffer as it was, whatever the ready signal does.
C18_InitOneWrite == [][C18_Step]_vars

C18_Witness ==
    /\ pc = "done"
    /\ initOut = "return"
    /\ irq
    /\ buf_rx[1] = ERROR
    /\ buf_tx[5] # 0
    /\ wlog = << << 16, 239, 190, 0 >> >>

\* ------------------------------------------------------------ C19

\* the length of the text given to command: cmd is the text and its newline
TextLen == Len(cmd) - 1

\* command has ended, one way or the other
CommandEnded == pc \in {"check_ret", "done"} /\ commandOut.kind # "none"

C19_WitnessAccepted ==
    /\ CommandEnded
    /\ TextLen = 126
    /\ Len(wlog) = 8
    /\ commandOut.kind = "ATfail"
    /\ commandOut.cause = "Timeout"

\* ------------------------------------------------------------ C20

\* _cmd has been entered with an accepted command
CmdAccepted == pc = "send_loop" /\ pos = 0 /\ wlog = << >>

\* _cmd is over: it returned or raised
CmdOver == pc = "command_ret" /\ cmdOut.kind # "none"

\* C20: every call of _cmd with an accepted command returns or raises, given
\* a peripheral that does not hold the ready signal forever: the send loop
\* makes exactly ceil(L/16) writes, the wait loop makes at most 20 polls
\* whatever the signal does, and the receive loop, the one loop without a
\* bound of its own, goes on to the next read as long as the signal reads
\* true.
C20_Terminates ==
    /\ CmdAccepted ~> CmdOver
    /\ [](Phase(pc) \in {2, 3} => Len(wlog) = FrameCount(Len(cmd)))
    /\ [](npolls <= TimeoutMs \div PollMs)
    /\ [][(pc = "rx_loop" /\ irq) => pc' = "rx_enter"]_vars

C20_Witness ==
    /\ CmdOver
    /\ cmdOut.kind = "return"
    /\ Len(cmd) = LiveTextLen + 1
    /\ Len(wlog) = FrameCount(LiveTextLen + 1)
    /\ npolls = 20
    /\ Len(rxlog) = MaxRxFrames

====
